---- MODULE Spec2Model ----
(***************************************************************************)
(* Continuum normalization of stellar spectra                              *)
(* (Code/Version1.3/apogeedata.py): get_contmask, get_pixmask and          *)
(* continuum_normalize_Chebyshev, called in the order ApogeeDF.get_spectra *)
(* calls them (lines 214-218).                                             *)
(*                                                                         *)
(* Floating-point values are modelled as exact rationals extended with     *)
(* NaN and the two infinities: a value is a pair <<n, d>>, finite when     *)
(* d > 0 (in lowest terms), <<0,0>> for NaN, <<1,0>> for +inf and          *)
(* <<-1,0>> for -inf.  Rounding, overflow and the sign of zero are not     *)
(* modelled.  Arrays are functions over 0-based index ranges, as in the    *)
(* source.                                                                 *)
(*                                                                         *)
(* The least-squares solve of numpy's Chebyshev.fit is library code: its   *)
(* evaluation over a segment is a nondeterministic choice among            *)
(* FitCurves; on an empty segment it raises, as numpy does.                *)
(***************************************************************************)
EXTENDS Integers, Sequences, FiniteSets

\* ------------------------------------------------------------- bounds
\* largest number of stars (rows of fluxes) of an input
MaxStars == 2
\* number of pixels of the common wavelength axis (len(lambdas))
NPix == 2

\* ------------------------------------------------------------- floats
NaN == <<0, 0>>
PosInf == <<1, 0>>
NegInf == <<-1, 0>>
Zero == <<0, 1>>
One == <<1, 1>>
Two == <<2, 1>>
MinusOne == <<-1, 1>>

Abs(n) == IF n < 0 THEN -n ELSE n

RECURSIVE GCD(_, _)
GCD(a, b) == IF b = 0 THEN a ELSE GCD(b, a % b)

\* the rational n/d (d # 0) in lowest terms with a positive denominator
Norm(n, d) ==
    LET g == GCD(Abs(n), Abs(d))
        s == IF d < 0 THEN -1 ELSE 1
    IN  <<(s * n) \div g, (s * d) \div g>>

IsNaN(x) == x = NaN
\* np.isfinite
IsFinite(x) == x[2] # 0
Sign(x) == IF x[1] > 0 THEN 1 ELSE IF x[1] < 0 THEN -1 ELSE 0
Inf(s) == IF s > 0 THEN PosInf ELSE NegInf

\* IEEE comparison a < b: false as soon as one side is NaN
Lt(a, b) ==
    IF IsNaN(a) \/ IsNaN(b) THEN FALSE
    ELSE IF ~IsFinite(a) /\ ~IsFinite(b) THEN a[1] < b[1]
    ELSE a[1] * b[2] < b[1] * a[2]
Le(a, b) == Lt(a, b) \/ (~IsNaN(a) /\ a = b)

Mul(a, b) ==
    IF IsNaN(a) \/ IsNaN(b) THEN NaN
    ELSE IF ~IsFinite(a) \/ ~IsFinite(b)
         THEN IF Sign(a) * Sign(b) = 0 THEN NaN ELSE Inf(Sign(a) * Sign(b))
    ELSE Norm(a[1] * b[1], a[2] * b[2])

\* numpy array division: x / 0 is +-inf, 0 / 0 and inf / inf are NaN
Div(a, b) ==
    IF IsNaN(a) \/ IsNaN(b) THEN NaN
    ELSE IF ~IsFinite(a)
         THEN IF ~IsFinite(b) THEN NaN
              ELSE IF Sign(b) < 0 THEN Inf(-Sign(a)) ELSE a
    ELSE IF ~IsFinite(b) THEN Zero
    ELSE IF b[1] = 0
         THEN IF a[1] = 0 THEN NaN ELSE Inf(Sign(a))
    ELSE Norm(a[1] * b[2], a[2] * b[1])

Add(a, b) ==
    IF IsNaN(a) \/ IsNaN(b) THEN NaN
    ELSE IF ~IsFinite(a)
         THEN IF ~IsFinite(b) /\ a # b THEN NaN ELSE a
    ELSE IF ~IsFinite(b) THEN b
    ELSE Norm(a[1] * b[2] + b[1] * a[2], a[2] * b[2])

Neg(a) == <<-a[1], a[2]>>
Sub(a, b) == Add(a, Neg(b))
FAbs(a) == <<Abs(a[1]), a[2]>>
FromInt(n) == <<n, 1>>

\* ------------------------------------------------------------- inputs
Pixels == 0 .. NPix - 1

\* the finite values an evaluated fit may take at a pixel
FitVals == {Zero, One, Two}

\* fit(lambda_cut) over the pixels S of a segment: a series with finite
\* coefficients evaluates to a finite value at every pixel, a series with a
\* NaN coefficient to NaN at every pixel
FitCurves(S) == [S -> FitVals] \cup {[k \in S |-> NaN]}

\* one pixel of an input row is a pair <<flux, flux_err>>
GoodPix == <<One, One>>
\* bad pixels: flux NaN, flux zero, error zero, error negative
Defects == {<<NaN, One>>, <<Zero, One>>, <<One, Zero>>, <<One, MinusOne>>}

\* input rows: a clean row, a row with a single bad pixel, a row bad everywhere
Rows ==
    {[k \in Pixels |-> GoodPix]}
    \cup {[k \in Pixels |-> IF k = b THEN d ELSE GoodPix] : b \in Pixels, d \in Defects}
    \cup {[k \in Pixels |-> d] : d \in Defects}

\* segment lists (start, stop) into the wavelength axis, 0-based, stop exclusive
RangeChoices ==
    { <<>>,
      << <<0, NPix>> >>,
      << <<0, 1>>, <<1, NPix>> >>,
      << <<1, NPix>> >>,
      << <<1, 1>> >> }

VARIABLES
    fluxes,         \* fluxes[jj][k], jj in 0..nstars-1
    flux_errs,      \* flux_errs[jj][k]
    ranges,         \* sequence of <<start, stop>>
    contmask,       \* result of get_contmask, <<>> before it is computed
    pc,             \* position in get_spectra / continuum_normalize_Chebyshev
    jj,             \* star loop index (line 119)
    i,              \* segment loop index (line 123)
    continua,       \* continua[k] (line 113)
    norm_fluxes,    \* norm_fluxes[jj][k] (line 114)
    norm_ivars,     \* norm_ivars[jj][k] (line 116)
    norm_flux,      \* locals of the last segment iteration (lines 132-139)
    norm_flux_err,
    badpix2,
    fits            \* history: <<jj, i, fit(lambda_cut)>> of every fit evaluated

vars == <<fluxes, flux_errs, ranges, contmask, pc, jj, i, continua,
          norm_fluxes, norm_ivars, norm_flux, norm_flux_err, badpix2, fits>>

nstars == Cardinality(DOMAIN fluxes)
Stars == 0 .. nstars - 1

\* ------------------------------------------------------------- get_contmask
\* sum of col[0] .. col[n-1]
RECURSIVE SumTo(_, _)
SumTo(col, n) == IF n = 0 THEN Zero ELSE Add(SumTo(col, n - 1), col[n - 1])

\* np.mean: 0/0 = NaN on an empty column
Mean(col) ==
    LET n == Cardinality(DOMAIN col) IN Div(SumTo(col, n), FromInt(n))

\* the k-th smallest (k = 1..n) entry of a NaN-free column
KthSmallest(col, k) ==
    CHOOSE v \in {col[s] : s \in DOMAIN col} :
        /\ Cardinality({s \in DOMAIN col : Lt(col[s], v)}) < k
        /\ Cardinality({s \in DOMAIN col : Le(col[s], v)}) >= k

\* np.median: NaN on an empty column or when any entry is NaN
Median(col) ==
    LET n == Cardinality(DOMAIN col) IN
    IF n = 0 \/ \E s \in DOMAIN col : IsNaN(col[s]) THEN NaN
    ELSE IF n % 2 = 1 THEN KthSmallest(col, (n + 1) \div 2)
    ELSE Div(Add(KthSmallest(col, n \div 2), KthSmallest(col, n \div 2 + 1)), Two)

\* np.var: mean of the squared deviations from the mean
Var(col) ==
    LET m == Mean(col) IN
    Mean([s \in DOMAIN col |-> Mul(Sub(col[s], m), Sub(col[s], m))])

f_cut == Norm(1, 10000)
sigma_cut == Norm(5, 1000)

get_contmask(fl) ==
    LET f_bar == [k \in Pixels |-> Median([s \in DOMAIN fl |-> fl[s][k]])]
        sigma_f == [k \in Pixels |-> Var([s \in DOMAIN fl |-> fl[s][k]])]
        cont1 == [k \in Pixels |-> Lt(Div(FAbs(Sub(f_bar[k], One)), One), f_cut)]
        cont2 == [k \in Pixels |-> Lt(sigma_f[k], sigma_cut)]
    IN  [k \in Pixels |-> cont1[k] /\ cont2[k]]

\* ------------------------------------------------------------- get_pixmask
\* variant: errors flagged only when strictly negative
get_pixmask_strict(fl, errs) ==
    [k \in DOMAIN fl |->
        (~IsFinite(errs[k])) \/ Lt(errs[k], Zero) \/ (~IsFinite(fl[k])) \/ (fl[k] = Zero)]

get_pixmask(fl, errs) ==
    LET bad_flux == [k \in DOMAIN fl |-> (~IsFinite(fl[k])) \/ (fl[k] = Zero)]
        bad_err == [k \in DOMAIN errs |-> (~IsFinite(errs[k])) \/ Le(errs[k], Zero)]
    IN  [k \in DOMAIN fl |-> bad_err[k] \/ bad_flux[k]]

\* ------------------------------------------------------------- one segment
\* the pixel indices of the slice [start:stop]
Slice(r) == r[1] .. r[2] - 1
InSegment(k) == \E n \in 1 .. Len(ranges) : k \in Slice(ranges[n])

\* flux_cut / fit(lambda_cut)  (lines 132, 133)
DivideBy(cut, curve) == [k \in DOMAIN curve |-> Div(cut[k], curve[k])]

\* norm_ivar = 1. / norm_flux_err**2  (line 134)
NormIvar(nfe) == [k \in DOMAIN nfe |-> Div(One, Mul(nfe[k], nfe[k]))]

\* ind = np.isfinite(norm_ivar) & (norm_ivar > 0)  (line 136)
Ind(iv) == [k \in DOMAIN iv |-> IsFinite(iv[k]) /\ Lt(Zero, iv[k])]

\* norm_ivar[ind].min() raises ValueError on an empty selection
FloorDefined(nfe) ==
    LET iv == NormIvar(nfe) IN \E k \in DOMAIN iv : Ind(iv)[k]

MinOf(S) == CHOOSE m \in S : \A y \in S : Le(m, y)

\* norm_ivar[~ind] = norm_ivar[ind].min() * 1e-2  (line 138)
Floored(iv) ==
    LET ind == Ind(iv)
        floor == Mul(MinOf({iv[k] : k \in {q \in DOMAIN iv : ind[q]}}), Norm(1, 100))
    IN  [k \in DOMAIN iv |-> IF ind[k] THEN iv[k] ELSE floor]

\* variant: the mask is dropped and the data returned as they are
ma_filled_nomask(arr, mask, fill) == arr

\* np.ma.filled(np.ma.array(arr, mask=mask, fill_value=fill))
ma_filled(arr, mask, fill) == [k \in DOMAIN arr |-> IF mask[k] THEN fill ELSE arr[k]]

\* the slice written to norm_fluxes[jj,start:stop]  (lines 139-141)
SegmentFlux(nf, nfe) == ma_filled(nf, get_pixmask(nf, nfe), One)

\* variant: line 134 alone, without the floor and the masked fill
SegmentIvar_raw(nf, nfe) == NormIvar(nfe)

\* the slice written to norm_ivars[jj,start:stop]  (lines 134-143)
SegmentIvar(nf, nfe) == ma_filled(Floored(NormIvar(nfe)), get_pixmask(nf, nfe), Zero)

\* arr[start:stop] = cut
WriteSlice(arr, cut) == [k \in DOMAIN arr |-> IF k \in DOMAIN cut THEN cut[k] ELSE arr[k]]

\* variant: line 144 left out
ZeroAtContmask_skipped(row, cm) == row

\* norm_ivars[jj,:][contmask] = 0.  (line 144)
ZeroAtContmask(row, cm) == [k \in DOMAIN row |-> IF cm[k] THEN Zero ELSE row[k]]

\* ------------------------------------------------------------- the program
Init ==
    /\ \E n \in 0 .. MaxStars : \E st \in [0 .. n - 1 -> Rows] :
        /\ fluxes = [s \in 0 .. n - 1 |-> [k \in Pixels |-> st[s][k][1]]]
        /\ flux_errs = [s \in 0 .. n - 1 |-> [k \in Pixels |-> st[s][k][2]]]
    /\ ranges \in RangeChoices
    /\ contmask = <<>>
    /\ pc = "get_contmask"
    /\ jj = 0
    /\ i = 0
    /\ continua = <<>>
    /\ norm_fluxes = <<>>
    /\ norm_ivars = <<>>
    /\ norm_flux = <<>>
    /\ norm_flux_err = <<>>
    /\ badpix2 = <<>>
    /\ fits = {}

\* get_spectra line 214: contmask = get_contmask(lambdas, fluxes)
GetContmask ==
    /\ pc = "get_contmask"
    /\ contmask' = get_contmask(fluxes)
    /\ pc' = "call"
    /\ UNCHANGED <<fluxes, flux_errs, ranges, jj, i, continua, norm_fluxes,
                   norm_ivars, norm_flux, norm_flux_err, badpix2, fits>>

\* lines 113-117: the output arrays, zero-filled
Enter ==
    /\ pc = "call"
    /\ continua' = [k \in Pixels |-> Zero]
    /\ norm_fluxes' = [s \in Stars |-> [k \in Pixels |-> Zero]]
    /\ norm_ivars' = [s \in Stars |-> [k \in Pixels |-> Zero]]
    /\ jj' = 0
    /\ pc' = "star"
    /\ UNCHANGED <<fluxes, flux_errs, ranges, contmask, i, norm_flux,
                   norm_flux_err, badpix2, fits>>

\* lines 119-122: the star loop takes its next index
NextStar ==
    /\ pc = "star"
    /\ jj < nstars
    /\ i' = 0
    /\ pc' = "segment"
    /\ UNCHANGED <<fluxes, flux_errs, ranges, contmask, jj, continua, norm_fluxes,
                   norm_ivars, norm_flux, norm_flux_err, badpix2, fits>>

\* line 119 with range(nstars) exhausted: the function body ends without a
\* return statement, so the call evaluates to None
StarsExhausted ==
    /\ pc = "star"
    /\ jj >= nstars
    /\ pc' = "returned_none"
    /\ UNCHANGED <<fluxes, flux_errs, ranges, contmask, jj, i, continua, norm_fluxes,
                   norm_ivars, norm_flux, norm_flux_err, badpix2, fits>>

\* lines 124-143 for segment i of star jj, with `curve` the fit's evaluation
FitSegment ==
    /\ pc = "segment"
    /\ i < Len(ranges)
    /\ Slice(ranges[i + 1]) # {}
    /\ \E curve \in FitCurves(Slice(ranges[i + 1])) :
        LET nf == DivideBy(fluxes[jj], curve)
            nfe == DivideBy(flux_errs[jj], curve)
        IN  /\ FloorDefined(nfe)
            /\ continua' = WriteSlice(continua, curve)
            /\ norm_flux' = nf
            /\ norm_flux_err' = nfe
            /\ badpix2' = get_pixmask(nf, nfe)
            /\ norm_fluxes' = [norm_fluxes EXCEPT ![jj] = WriteSlice(@, SegmentFlux(nf, nfe))]
            /\ norm_ivars' = [norm_ivars EXCEPT ![jj] = WriteSlice(@, SegmentIvar(nf, nfe))]
            /\ fits' = fits \cup {<<jj, i, curve>>}
    /\ i' = i + 1
    /\ UNCHANGED <<fluxes, flux_errs, ranges, contmask, pc, jj>>

\* line 129 on an empty slice: Chebyshev.fit raises TypeError
\* ("expected non-empty vector for x"), which nothing catches
FitRaises ==
    /\ pc = "segment"
    /\ i < Len(ranges)
    /\ Slice(ranges[i + 1]) = {}
    /\ pc' = "TypeError"
    /\ UNCHANGED <<fluxes, flux_errs, ranges, contmask, jj, i, continua, norm_fluxes,
                   norm_ivars, norm_flux, norm_flux_err, badpix2, fits>>

\* lines 129-138 when no normalized inverse variance is finite and positive:
\* norm_ivar[ind].min() raises ValueError, which nothing catches
FloorRaises ==
    /\ pc = "segment"
    /\ i < Len(ranges)
    /\ Slice(ranges[i + 1]) # {}
    /\ \E curve \in FitCurves(Slice(ranges[i + 1])) :
        LET nf == DivideBy(fluxes[jj], curve)
            nfe == DivideBy(flux_errs[jj], curve)
        IN  /\ ~FloorDefined(nfe)
            /\ continua' = WriteSlice(continua, curve)
            /\ norm_flux' = nf
            /\ norm_flux_err' = nfe
            /\ fits' = fits \cup {<<jj, i, curve>>}
    /\ pc' = "ValueError"
    /\ UNCHANGED <<fluxes, flux_errs, ranges, contmask, jj, i, norm_fluxes,
                   norm_ivars, badpix2>>

\* line 144, after the segment loop of star jj
MaskContinuum ==
    /\ pc = "segment"
    /\ i >= Len(ranges)
    /\ norm_ivars' = [norm_ivars EXCEPT ![jj] = ZeroAtContmask(@, contmask)]
    /\ pc' = "return"
    /\ UNCHANGED <<fluxes, flux_errs, ranges, contmask, jj, i, continua, norm_fluxes,
                   norm_flux, norm_flux_err, badpix2, fits>>

\* line 145: the return statement, indented inside the star loop body
Return ==
    /\ pc = "return"
    /\ pc' = "returned"
    /\ UNCHANGED <<fluxes, flux_errs, ranges, contmask, jj, i, continua, norm_fluxes,
                   norm_ivars, norm_flux, norm_flux_err, badpix2, fits>>

Next ==
    \/ GetContmask
    \/ Enter
    \/ NextStar
    \/ StarsExhausted
    \/ FitSegment
    \/ FitRaises
    \/ FloorRaises
    \/ MaskContinuum
    \/ Return

Spec == Init /\ [][Next]_vars

\* ------------------------------------------------------------- properties
Returned == pc = "returned"
Raised == pc \in {"TypeError", "ValueError"}
Segments == 0 .. Len(ranges) - 1
SliceOf(n) == Slice(ranges[n + 1])

\* the fit of segment n of star s was evaluated
Fitted(s, n) == \E f \in fits : f[1] = s /\ f[2] = n

\* star s's own normalized error over segment f[2], from its own fit f
OwnNormErr(f) == DivideBy(flux_errs[f[1]], f[3])
OwnNormFlux(f) == DivideBy(fluxes[f[1]], f[3])

\* C1: when the call returns, every segment of every star has been fitted and
\* its slice written to the star's rows of norm_fluxes and norm_ivars.
C1_AllStarsAllSegments ==
    Returned =>
        \A s \in Stars : \A n \in Segments :
            \E f \in fits :
                /\ f[1] = s /\ f[2] = n
                /\ \A k \in SliceOf(n) :
                    norm_fluxes[s][k] = SegmentFlux(OwnNormFlux(f), OwnNormErr(f))[k]

C3_ContmaskZero ==
    Returned =>
        \A s \in Stars : \A k \in Pixels : contmask[k] => norm_ivars[s][k] = Zero

\* C3 witness: returned, with a continuum-mask pixel that the last segment's
\* fit left unmasked (its weight was positive before line 144)
C3_Witness ==
    /\ Returned
    /\ \E k \in DOMAIN badpix2 : contmask[k] /\ ~badpix2[k] /\ norm_ivars[jj][k] = Zero

C5_FloorInOutput ==
    Returned =>
        \A f \in fits : \A k \in DOMAIN f[3] :
            LET iv == NormIvar(OwnNormErr(f)) IN
            (~Ind(iv)[k] /\ FloorDefined(OwnNormErr(f)) /\ ~contmask[k]) =>
                norm_ivars[f[1]][k] = Floored(iv)[k]

\* C5 amended: a fitted pixel whose normalized error is NaN, infinite or zero
\* (the errors that make the normalized inverse variance non-finite or
\* non-positive) is returned with inverse variance 0, not with the floor.
C5_FloorMaskedToZero ==
    Returned =>
        \A f \in fits : \A k \in DOMAIN f[3] :
            LET nfe == OwnNormErr(f) IN
            (nfe[k] \in {NaN, PosInf, NegInf, Zero}) => norm_ivars[f[1]][k] = Zero

\* C5 witness: returned, with a pixel that line 138 gave a positive floor,
\* outside the continuum mask
C5_Witness ==
    /\ Returned
    /\ \E f \in fits : \E k \in DOMAIN f[3] :
        LET nfe == OwnNormErr(f) IN
        /\ nfe[k] \in {NaN, PosInf, NegInf, Zero}
        /\ FloorDefined(nfe)
        /\ Lt(Zero, Floored(NormIvar(nfe))[k])
        /\ ~contmask[k]

\* whatever the fit evaluates to, no pixel of S has a finite positive
\* normalized inverse variance for star s
NoFiniteWeight(s, S) ==
    \A curve \in FitCurves(S) : ~FloorDefined(DivideBy(flux_errs[s], curve))

C7_FailureIsolated ==
    Raised => \A s \in Stars \ {jj} : \A n \in Segments : Fitted(s, n)

\* C8: the returned continuum is, for every star and every segment, the
\* evaluation of that star's own fit.
C8_OwnContinuum ==
    Returned =>
        \A s \in Stars : \A n \in Segments :
            \E f \in fits :
                /\ f[1] = s /\ f[2] = n
                /\ \A k \in SliceOf(n) : continua[k] = f[3][k]

\* C9: get_contmask returns no mask for an ensemble of zero stars or one star.
C9_DegenerateEnsemble == contmask # <<>> => nstars >= 2

\* C10: every entry of the returned norm_ivars is finite and not negative.
C10_IvarFiniteNonNegative ==
    Returned =>
        \A s \in Stars : \A k \in Pixels :
            norm_ivars[s][k][2] > 0 /\ norm_ivars[s][k][1] >= 0

\* C10 witness: returned, with a positive weight, and a pixel of the last
\* segment whose raw inverse variance was infinite (normalized error zero)
C10_Witness ==
    /\ Returned
    /\ \E k \in Pixels : norm_ivars[jj][k][1] > 0
    /\ \E q \in DOMAIN norm_flux_err : norm_flux_err[q] = Zero

====
